---- MODULE Spec2Model ----
(***************************************************************************)
(* Model of who-calls: build_call_graph (definition collection and the     *)
(* heuristic call resolver), CallGraph.filtered / CallGraph.label, and     *)
(* print_caller_tree (target resolution, ancestor set, recursive walk),    *)
(* run in the order of cli.main: build, optional --only filter, print.     *)
(*                                                                         *)
(* Python strings are sequences of one-character strings, so that          *)
(* str.startswith / str.endswith / str.split / "in" are computed           *)
(* character by character as the interpreter does.                         *)
(***************************************************************************)
EXTENDS Naturals, Sequences, FiniteSets

\* ------------------------------------------------------------------------
\* Bounds of the model
\* ------------------------------------------------------------------------

\* Largest number of *.py files under the scanned root.
MaxFiles == 2

\* Depth of nested walk() frames at which the interpreter raises
\* RecursionError (sys.getrecursionlimit(), scaled down).
RecursionLimit == 7

\* ------------------------------------------------------------------------
\* Python str operations
\* ------------------------------------------------------------------------

DOT == <<".">>

\* Code-point order of the characters used ("." sorts before the letters).
Alphabet == <<".", "?", "a", "b", "c", "e", "f", "g", "l", "s", "x", "z">>

Ord(c) == CHOOSE k \in 1..Len(Alphabet) : Alphabet[k] = c

\* s.startswith(p)
StartsWith(s, p) ==
    /\ Len(p) <= Len(s)
    /\ SubSeq(s, 1, Len(p)) = p

\* s.endswith(p)
EndsWith(s, p) ==
    /\ Len(p) <= Len(s)
    /\ SubSeq(s, Len(s) - Len(p) + 1, Len(s)) = p

\* p in s  (substring test)
Contains(s, p) ==
    \E k \in 0..(Len(s) - Len(p)) : SubSeq(s, k + 1, k + Len(p)) = p

\* s < t for str (lexicographic by code point; a proper prefix is smaller)
RECURSIVE StrLess(_, _)
StrLess(s, t) ==
    IF t = <<>> THEN FALSE
    ELSE IF s = <<>> THEN TRUE
    ELSE IF Head(s) = Head(t) THEN StrLess(Tail(s), Tail(t))
    ELSE Ord(Head(s)) < Ord(Head(t))

\* sep.join(parts)
RECURSIVE Join(_, _)
Join(sep, parts) ==
    IF parts = <<>> THEN <<>>
    ELSE IF Len(parts) = 1 THEN parts[1]
    ELSE parts[1] \o sep \o Join(sep, Tail(parts))

\* s.split(".")
RECURSIVE SplitFrom(_, _)
SplitFrom(s, cur) ==
    IF s = <<>> THEN <<cur>>
    ELSE IF Head(s) = "." THEN <<cur>> \o SplitFrom(Tail(s), <<>>)
    ELSE SplitFrom(Tail(s), Append(cur, Head(s)))

Split(s) == SplitFrom(s, <<>>)

\* sorted(S) for a set of str
RECURSIVE Sorted(_)
Sorted(S) ==
    IF S = {} THEN <<>>
    ELSE LET m == CHOOSE x \in S : \A y \in S \ {x} : StrLess(x, y)
         IN  <<m>> \o Sorted(S \ {m})

\* re.Pattern.search for the two shapes of pattern used here: "$^", which
\* matches no string, and a literal without metacharacters, which matches
\* when it occurs as a substring.
Search(pattern, s) ==
    IF pattern.kind = "never" THEN FALSE ELSE Contains(s, pattern.text)

\* ------------------------------------------------------------------------
\* Source trees (ast nodes) and the scanned project
\* ------------------------------------------------------------------------

A == <<"a">>
B == <<"b">>
F == <<"f">>
G == <<"g">>
X == <<"x">>
SELF == <<"s", "e", "l", "f">>
CLS == <<"c", "l", "s">>

\* ast.FunctionDef / ast.AsyncFunctionDef (the collector treats them alike)
FunctionDef(name, lineno, body) ==
    [kind |-> "FunctionDef", name |-> name, lineno |-> lineno, body |-> body]

\* ast.ClassDef
ClassDef(name, body) ==
    [kind |-> "ClassDef", name |-> name, body |-> body]

\* ast.Call whose func is ast.Name:  id(...)
CallName(id) ==
    [kind |-> "Call", func |-> [kind |-> "Name", id |-> id]]

\* ast.Call whose func is ast.Attribute on a Name:  recv.attr(...)
CallAttr(recv, attr) ==
    [kind |-> "Call",
     func |-> [kind |-> "Attribute",
               value |-> [kind |-> "Name", id |-> recv],
               attr |-> attr]]

\* A file that ast.parse accepts, and one on which it raises SyntaxError.
Module(body) == [parses |-> TRUE, body |-> body]
Broken == [parses |-> FALSE, body |-> <<>>]

\* The file contents the project is drawn from:
\*   def f(): <s>            class b:                  def g():
\*   def g(): f()              def f(self): <s>          def f(): <s>
\*                             def g(self): pass
\*   def f(): g()            and a file that does not parse,
\* with <s> one of: pass; f() twice; g() and a call x() of a name defined
\* nowhere; self.g(); cls.g() and x.g().
Sources ==
    {Module(<<FunctionDef(F, 1, s), FunctionDef(G, 2, <<CallName(F)>>)>>) :
        s \in {<<>>, <<CallName(F), CallName(F)>>, <<CallName(G), CallName(X)>>,
                <<CallAttr(SELF, G)>>}}
    \cup {Module(<<FunctionDef(F, 1, <<CallName(G)>>)>>)}
    \cup {Module(<<ClassDef(B, <<FunctionDef(F, 2, s), FunctionDef(G, 3, <<>>)>>)>>) :
        s \in {<<CallAttr(SELF, G)>>, <<CallAttr(CLS, G), CallAttr(X, G)>>}}
    \cup {Module(<<FunctionDef(G, 1, <<FunctionDef(F, 2, s)>>)>>) :
        s \in {<<>>, <<CallName(G)>>}}
    \cup {Broken}

\* Paths of the *.py files relative to the root, as their parts with the
\* suffix removed: a.py, b/a.py, a/b.py.
Paths == {<<A>>, <<B, A>>, <<A, B>>}

\* The exclusion patterns: "$^" (as in the tests) and the literal "b/".
Never == [kind |-> "never", text |-> <<>>]
Literal(text) == [kind |-> "literal", text |-> text]
Excludes == {Never, Literal(<<"b", "/">>)}

\* The --only patterns and the targets asked for.
Onlys == {Literal(G), Literal(<<"z">>)}
Targets == {F, G, A \o DOT \o F, <<"z">>}

\* path.relative_to(root).as_posix()
AsPosix(parts) == Join(<<"/">>, parts) \o <<".", "p", "y">>

\* ".".join(path.relative_to(root).with_suffix("").parts)
ModuleName(parts) == Join(DOT, parts)

\* ------------------------------------------------------------------------
\* build_call_graph: the Collector
\* ------------------------------------------------------------------------

\* Collector._add: the qualified name registered for a function definition
QualName(module, cls, name) ==
    module \o DOT \o Join(DOT, Append(cls, name))

\* Child nodes reached by generic_visit / ast.iter_child_nodes
Children(node) ==
    IF node.kind \in {"ClassDef", "FunctionDef"} THEN node.body ELSE <<>>

\* Collector.visit on a node with class stack cls: the registrations
\* (qualified name, function node) in the order _add makes them.
RECURSIVE Visit(_, _, _)
RECURSIVE VisitAll(_, _, _)
Visit(node, module, cls) ==
    IF node.kind = "ClassDef"
      THEN VisitAll(node.body, module, Append(cls, node.name))
    ELSE IF node.kind = "FunctionDef"
      THEN <<[q |-> QualName(module, cls, node.name), node |-> node]>>
           \o VisitAll(node.body, module, cls)
    ELSE VisitAll(Children(node), module, cls)

VisitAll(nodes, module, cls) ==
    IF nodes = <<>> THEN <<>>
    ELSE Visit(Head(nodes), module, cls) \o VisitAll(Tail(nodes), module, cls)

\* A Python dict as a function; d[k] = v
Put(d, k, v) == [x \in DOMAIN d \cup {k} |-> IF x = k THEN v ELSE d[x]]

EmptyDict == [x \in {} |-> x]

\* nx.DiGraph
EmptyGraph == [nodes |-> {}, edges |-> {}]

\* DiGraph.add_node
AddNode(g, n) == [g EXCEPT !.nodes = @ \cup {n}]

\* DiGraph.add_edge: endpoints that are not nodes yet become nodes
AddEdge(g, u, v) ==
    [nodes |-> g.nodes \cup {u, v}, edges |-> g.edges \cup {<<u, v>>}]

\* The locals of build_call_graph filled by the collector.
EmptyBuild ==
    [keys |-> <<>>, defs |-> EmptyDict, src_map |-> EmptyDict,
     line_map |-> EmptyDict, graph |-> EmptyGraph]

\* Collector._add for one registration: defs[q] = node, src_map[q] = path,
\* line_map[q] = node.lineno, graph.add_node(q).  A key that is already in
\* the dict keeps its position and takes the new value.
Add(b, reg, path) ==
    [keys |-> IF reg.q \in DOMAIN b.defs THEN b.keys ELSE Append(b.keys, reg.q),
     defs |-> Put(b.defs, reg.q, reg.node),
     src_map |-> Put(b.src_map, reg.q, path),
     line_map |-> Put(b.line_map, reg.q, reg.node.lineno),
     graph |-> AddNode(b.graph, reg.q)]

RECURSIVE AddAll(_, _, _)
AddAll(b, regs, path) ==
    IF regs = <<>> THEN b
    ELSE AddAll(Add(b, Head(regs), path), Tail(regs), path)

\* One iteration of "for path in root.rglob('*.py')": skip an excluded
\* file and one that does not parse, otherwise run the Collector on it.
CollectFile(b, path, file, rx) ==
    IF Search(rx, AsPosix(path)) THEN b
    ELSE IF ~file.parses THEN b
    ELSE AddAll(b, VisitAll(file.body, ModuleName(path), <<>>), path)

\* ------------------------------------------------------------------------
\* build_call_graph: the call resolver
\* ------------------------------------------------------------------------

\* ast.walk(node): the node and all its descendants, breadth first
RECURSIVE AstWalk(_)
AstWalk(queue) ==
    IF queue = <<>> THEN <<>>
    ELSE <<Head(queue)>> \o AstWalk(Tail(queue) \o Children(Head(queue)))

\* ".".join(caller.split(".")[:-1])
CallerPrefix(caller) ==
    LET parts == Split(caller)
    IN  Join(DOT, SubSeq(parts, 1, Len(parts) - 1))

\* [d for d in defs if d.endswith("." + name)]
EndingWith(known, name) == {d \in known : EndsWith(d, DOT \o name)}

\* Variant of CalleeCandidates: a bare name is taken to be a function of
\* the caller's own scope without looking it up in defs.
CalleeCandidatesUnchecked(known, caller, n) ==
    IF n.func.kind = "Name"
      THEN {CallerPrefix(caller) \o DOT \o n.func.id}
    ELSE IF n.func.kind = "Attribute"
      THEN EndingWith(known, n.func.attr)
    ELSE {}

\* Variant of CalleeCandidates: no same-class attempt for self/cls.
CalleeCandidatesNoSameClass(known, caller, n) ==
    IF n.func.kind = "Name"
      THEN EndingWith(known, n.func.id)
    ELSE IF n.func.kind = "Attribute"
      THEN EndingWith(known, n.func.attr)
    ELSE {}

\* callee_candidates for one ast.Call n found in the body of caller
CalleeCandidates(known, caller, n) ==
    IF n.func.kind = "Name"
      THEN EndingWith(known, n.func.id)
    ELSE IF n.func.kind = "Attribute"
      THEN LET same_cls == CallerPrefix(caller) \o DOT \o n.func.attr
               first == IF /\ n.func.value.kind = "Name"
                           /\ n.func.value.id \in {SELF, CLS}
                           /\ same_cls \in known
                          THEN {same_cls} ELSE {}
           IN  IF first # {} THEN first ELSE EndingWith(known, n.func.attr)
    ELSE {}

\* Variant of Callees: no preference for the caller's own scope.
CalleesAll(known, caller, n) == CalleeCandidates(known, caller, n)

\* "same_pkg or callee_candidates": the callees one call is linked to
Callees(known, caller, n) ==
    LET callee_candidates == CalleeCandidates(known, caller, n)
        same_pkg == {c \in callee_candidates : StartsWith(c, CallerPrefix(caller))}
    IN  IF same_pkg # {} THEN same_pkg ELSE callee_candidates

\* The ast.Call nodes of ast.walk(fnode), in walk order
CallsOf(fnode) == SelectSeq(AstWalk(<<fnode>>), LAMBDA n : n.kind = "Call")

\* "for callee in ...: graph.add_edge(caller, callee)"
RECURSIVE LinkAll(_, _, _)
LinkAll(g, caller, callees) ==
    IF callees = {} THEN g
    ELSE LET c == CHOOSE x \in callees : TRUE
         IN  LinkAll(AddEdge(g, caller, c), caller, callees \ {c})

\* One iteration of "for caller, fnode in defs.items()": every call in the
\* body of fnode is linked to its callees.
RECURSIVE LinkCalls(_, _, _, _)
LinkCalls(g, known, caller, calls) ==
    IF calls = <<>> THEN g
    ELSE LinkCalls(LinkAll(g, caller, Callees(known, caller, Head(calls))),
                   known, caller, Tail(calls))

ResolveCaller(g, defs, caller) ==
    LinkCalls(g, DOMAIN defs, caller, CallsOf(defs[caller]))

\* CallGraph(graph=..., src=..., lines=...)
CallGraph(graph, src, lines) == [graph |-> graph, src |-> src, lines |-> lines]

\* build_call_graph as a whole, for the files fs visited in the given order
RECURSIVE CollectAll(_, _, _, _)
CollectAll(b, fs, order, rx) ==
    IF order = <<>> THEN b
    ELSE CollectAll(CollectFile(b, Head(order), fs[Head(order)], rx),
                    fs, Tail(order), rx)

RECURSIVE ResolveAll(_, _, _)
ResolveAll(g, defs, callers) ==
    IF callers = <<>> THEN g
    ELSE ResolveAll(ResolveCaller(g, defs, Head(callers)), defs, Tail(callers))

BuildCallGraph(fs, order, rx) ==
    LET b == CollectAll(EmptyBuild, fs, order, rx)
    IN  CallGraph(ResolveAll(b.graph, b.defs, b.keys), b.src_map, b.line_map)

\* ------------------------------------------------------------------------
\* CallGraph.filtered and CallGraph.label
\* ------------------------------------------------------------------------

\* DiGraph.subgraph(nodes).copy()
Subgraph(g, nodes) ==
    [nodes |-> g.nodes \cap nodes,
     edges |-> {e \in g.edges : e[1] \in nodes /\ e[2] \in nodes}]

\* {k: v for k, v in d.items() if k in nodes}
Restrict(d, nodes) == [k \in DOMAIN d \cap nodes |-> d[k]]

\* Variant of Filtered: the receiver itself is cut down and returned.
FilteredInPlace(self, pattern) ==
    LET nodes == {n \in self.graph.nodes : Search(pattern, n)}
        kept == CallGraph(Subgraph(self.graph, nodes),
                          Restrict(self.src, nodes),
                          Restrict(self.lines, nodes))
    IN  [self |-> kept, result |-> kept]

\* CallGraph.filtered(pattern): the receiver as the call leaves it, and
\* the CallGraph returned
Filtered(self, pattern) ==
    LET nodes == {n \in self.graph.nodes : Search(pattern, n)}
    IN  [self |-> self,
         result |-> CallGraph(Subgraph(self.graph, nodes),
                              Restrict(self.src, nodes),
                              Restrict(self.lines, nodes))]

\* dict.get(k, default)
Get(d, k, default) == IF k \in DOMAIN d THEN d[k] ELSE default

\* CallGraph.label(node): "func @ file:line"
Label(self, node) ==
    LET parts == Split(node)
    IN  [func |-> parts[Len(parts)],
         file |-> IF node \in DOMAIN self.src
                    THEN AsPosix(self.src[node]) ELSE <<"?">>,
         line |-> Get(self.lines, node, 1)]

\* ------------------------------------------------------------------------
\* print_caller_tree
\* ------------------------------------------------------------------------

\* Variant of Matches: only the complete qualified name matches.
MatchesFullNameOnly(graph, target) == {n \in graph.nodes : n = target}

\* [n for n in graph if n.endswith("." + target) or n == target]
Matches(graph, target) ==
    {n \in graph.nodes : EndsWith(n, DOT \o target) \/ n = target}

Successors(graph, n) == {e[2] : e \in {d \in graph.edges : d[1] = n}}
Predecessors(graph, n) == {e[1] : e \in {d \in graph.edges : d[2] = n}}

\* The nodes reachable from the nodes of seen (seen included)
RECURSIVE Reach(_, _)
Reach(graph, seen) ==
    LET next == seen \cup UNION {Successors(graph, n) : n \in seen}
    IN  IF next = seen THEN seen ELSE Reach(graph, next)

\* nx.has_path(graph, source, target)
HasPath(graph, source, target) == target \in Reach(graph, {source})

\* anc = {n for n in graph if nx.has_path(graph, n, tgt)}
Ancestors(graph, tgt) == {n \in graph.nodes : HasPath(graph, n, tgt)}

\* roots = sorted(n for n in anc
\*                if not any(p in anc for p in graph.predecessors(n)))
Roots(graph, anc) ==
    Sorted({n \in anc : ~ \E p \in Predecessors(graph, n) : p \in anc})

\* kids = sorted(c for c in graph.successors(node) if c in anc)
Kids(graph, anc, node) == Sorted({c \in Successors(graph, node) : c \in anc})

\* The line walk() prints for node, and the frame of that call of walk()
TreeLine(cgraph, node, prefix, last) ==
    [kind |-> "tree", node |-> node, prefix |-> prefix,
     branch |-> IF last THEN "L-- " ELSE "|-- ",
     label |-> Label(cgraph, node)]

Frame(graph, anc, node, prefix, last) ==
    [node |-> node, prefix |-> prefix, last |-> last,
     kids |-> Kids(graph, anc, node), k |-> 1]

\* ------------------------------------------------------------------------
\* State
\* ------------------------------------------------------------------------

VARIABLES
    files,       \* the *.py files under root: path parts -> parsed content
    rx_exclude,  \* build_call_graph's exclusion pattern
    todo,        \* the paths root.rglob("*.py") has still to yield
    build,       \* build_call_graph's locals: defs (with its key order),
                 \* src_map, line_map, graph
    i,           \* position of "for caller, fnode in defs.items()"
    pc,          \* collect, resolve, main, print, walk, exit
    built,       \* the CallGraph build_call_graph returned
    only,        \* main's --only pattern, or None
    cgraph,      \* print_caller_tree's argument cgraph
    target,      \* print_caller_tree's argument target
    anc,         \* print_caller_tree's anc
    roots,       \* print_caller_tree's roots
    r,           \* position of "for i, r in enumerate(roots)"
    stack,       \* the active calls of walk(), outermost first
    out,         \* what was printed, in order
    exit         \* how the process ended: [status, message], or None

vars ==
    <<files, rx_exclude, todo, build, i, pc, built, only, cgraph, target,
      anc, roots, r, stack, out, exit>>

None == [kind |-> "None"]

\* The projects: at most MaxFiles files, each at its own path.
Projects ==
    UNION {[S -> Sources] : S \in {T \in SUBSET Paths : Cardinality(T) <= MaxFiles}}

Init ==
    /\ files \in Projects
    /\ rx_exclude \in Excludes
    /\ todo = DOMAIN files
    /\ build = EmptyBuild
    /\ i = 1
    /\ pc = IF DOMAIN files = {} THEN "resolve" ELSE "collect"
    /\ built = None
    /\ only = None
    /\ cgraph = None
    /\ target = None
    /\ anc = {}
    /\ roots = <<>>
    /\ r = 1
    /\ stack = <<>>
    /\ out = <<>>
    /\ exit = None

\* ------------------------------------------------------------------------
\* build_call_graph
\* ------------------------------------------------------------------------

\* The first loop: rglob yields the files in an order the file system
\* decides; each is collected in turn.
Collect(path) ==
    /\ pc = "collect"
    /\ path \in todo
    /\ build' = CollectFile(build, path, files[path], rx_exclude)
    /\ todo' = todo \ {path}
    /\ pc' = IF todo' = {} THEN "resolve" ELSE "collect"
    /\ UNCHANGED <<files, rx_exclude, i, built, only, cgraph, target, anc,
                   roots, r, stack, out, exit>>

\* The second loop, one caller per step, in the key order of defs.
Resolve ==
    /\ pc = "resolve"
    /\ i <= Len(build.keys)
    /\ build' = [build EXCEPT
                   !.graph = ResolveCaller(build.graph, build.defs, build.keys[i])]
    /\ i' = i + 1
    /\ UNCHANGED <<files, rx_exclude, todo, pc, built, only, cgraph, target,
                   anc, roots, r, stack, out, exit>>

\* return CallGraph(graph=graph, src=src_map, lines=line_map); the locals
\* are gone with the call.
BuildReturn ==
    /\ pc = "resolve"
    /\ i > Len(build.keys)
    /\ built' = CallGraph(build.graph, build.src_map, build.line_map)
    /\ build' = EmptyBuild
    /\ i' = 1
    /\ pc' = "main"
    /\ UNCHANGED <<files, rx_exclude, todo, only, cgraph, target, anc, roots,
                   r, stack, out, exit>>

\* ------------------------------------------------------------------------
\* cli.main after build_call_graph
\* ------------------------------------------------------------------------

\* args.only is None: print_caller_tree(graph, args.function)
MainPlain(function) ==
    /\ pc = "main"
    /\ only' = None
    /\ cgraph' = built
    /\ target' = function
    /\ pc' = "print"
    /\ UNCHANGED <<files, rx_exclude, todo, build, i, built, anc, roots, r,
                   stack, out, exit>>

\* graph = graph.filtered(re.compile(args.only)), then print_caller_tree
MainOnly(pattern, function) ==
    /\ pc = "main"
    /\ only' = pattern
    /\ built' = Filtered(built, pattern).self
    /\ cgraph' = Filtered(built, pattern).result
    /\ target' = function
    /\ pc' = "print"
    /\ UNCHANGED <<files, rx_exclude, todo, build, i, anc, roots, r, stack,
                   out, exit>>

\* ------------------------------------------------------------------------
\* print_caller_tree
\* ------------------------------------------------------------------------

\* if not matches: sys.exit("function ... not found")
PrintNotFound ==
    /\ pc = "print"
    /\ Matches(cgraph.graph, target) = {}
    /\ exit' = [status |-> 1, message |-> [kind |-> "not found", function |-> target]]
    /\ pc' = "exit"
    /\ UNCHANGED <<files, rx_exclude, todo, build, i, built, only, cgraph,
                   target, anc, roots, r, stack, out>>

\* if len(matches) > 1: print the matches and sys.exit(1).  The matches
\* are listed in the graph's node order, which the set leaves open.
PrintAmbiguous ==
    /\ pc = "print"
    /\ Cardinality(Matches(cgraph.graph, target)) > 1
    /\ out' = out \o <<[kind |-> "ambiguous"],
                       [kind |-> "matches", names |-> Matches(cgraph.graph, target)],
                       [kind |-> "please specify"]>>
    /\ exit' = [status |-> 1, message |-> None]
    /\ pc' = "exit"
    /\ UNCHANGED <<files, rx_exclude, todo, build, i, built, only, cgraph,
                   target, anc, roots, r, stack>>

\* tgt = matches[0]; anc and roots are computed
PrintResolved ==
    /\ pc = "print"
    /\ Cardinality(Matches(cgraph.graph, target)) = 1
    /\ LET tgt == CHOOSE n \in Matches(cgraph.graph, target) : TRUE
       IN  /\ anc' = Ancestors(cgraph.graph, tgt)
           /\ roots' = Roots(cgraph.graph, anc')
    /\ r' = 1
    /\ pc' = "walk"
    /\ UNCHANGED <<files, rx_exclude, todo, build, i, built, only, cgraph,
                   target, stack, out, exit>>

\* walk(r, "", i == len(roots) - 1) from the loop over the roots
WalkRoot ==
    /\ pc = "walk"
    /\ stack = <<>>
    /\ r <= Len(roots)
    /\ LET node == roots[r]
           last == (r = Len(roots))
       IN  /\ out' = Append(out, TreeLine(cgraph, node, <<>>, last))
           /\ stack' = <<Frame(cgraph.graph, anc, node, <<>>, last)>>
    /\ r' = r + 1
    /\ UNCHANGED <<files, rx_exclude, todo, build, i, pc, built, only, cgraph,
                   target, anc, roots, exit>>

\* walk(k, prefix + ..., i == len(kids) - 1) from the loop over the kids
\* of the innermost active call
WalkKid ==
    /\ pc = "walk"
    /\ stack # <<>>
    /\ Len(stack) < RecursionLimit
    /\ LET top == stack[Len(stack)]
       IN  /\ top.k <= Len(top.kids)
           /\ LET node == top.kids[top.k]
                  prefix == Append(top.prefix, IF top.last THEN "    " ELSE "|   ")
                  last == (top.k = Len(top.kids))
              IN  /\ out' = Append(out, TreeLine(cgraph, node, prefix, last))
                  /\ stack' = Append([stack EXCEPT ![Len(stack)].k = @ + 1],
                                     Frame(cgraph.graph, anc, node, prefix, last))
    /\ UNCHANGED <<files, rx_exclude, todo, build, i, pc, built, only, cgraph,
                   target, anc, roots, r, exit>>

\* The interpreter refuses one more nested call: RecursionError, uncaught
WalkRecursionError ==
    /\ pc = "walk"
    /\ stack # <<>>
    /\ Len(stack) >= RecursionLimit
    /\ stack[Len(stack)].k <= Len(stack[Len(stack)].kids)
    /\ exit' = [status |-> 1, message |-> [kind |-> "RecursionError"]]
    /\ pc' = "exit"
    /\ UNCHANGED <<files, rx_exclude, todo, build, i, built, only, cgraph,
                   target, anc, roots, r, stack, out>>

\* The loop over the kids is over: this call of walk() returns
WalkReturn ==
    /\ pc = "walk"
    /\ stack # <<>>
    /\ stack[Len(stack)].k > Len(stack[Len(stack)].kids)
    /\ stack' = SubSeq(stack, 1, Len(stack) - 1)
    /\ UNCHANGED <<files, rx_exclude, todo, build, i, pc, built, only, cgraph,
                   target, anc, roots, r, out, exit>>

\* The loop over the roots is over: print_caller_tree and main return
PrintReturn ==
    /\ pc = "walk"
    /\ stack = <<>>
    /\ r > Len(roots)
    /\ exit' = [status |-> 0, message |-> None]
    /\ pc' = "exit"
    /\ UNCHANGED <<files, rx_exclude, todo, build, i, built, only, cgraph,
                   target, anc, roots, r, stack, out>>

Next ==
    \/ \E path \in Paths : Collect(path)
    \/ Resolve
    \/ BuildReturn
    \/ \E function \in Targets : MainPlain(function)
    \/ \E pattern \in Onlys, function \in Targets : MainOnly(pattern, function)
    \/ PrintNotFound
    \/ PrintAmbiguous
    \/ PrintResolved
    \/ WalkRoot
    \/ WalkKid
    \/ WalkRecursionError
    \/ WalkReturn
    \/ PrintReturn

Spec == Init /\ [][Next]_vars

\* ------------------------------------------------------------------------
\* Vocabulary of the properties
\* ------------------------------------------------------------------------

\* The last dotted segment of a qualified name
LastSegment(q) == Split(q)[Len(Split(q))]

\* A qualified name without its last dotted segment (and without the dot)
EnclosingScope(q) == SubSeq(q, 1, Len(q) - Len(LastSegment(q)) - 1)

\* The nodes of graph that equal name or end with "." followed by name
Candidates(graph, name) ==
    {n \in graph.nodes :
        \/ n = name
        \/ /\ Len(n) > Len(name)
           /\ n[Len(n) - Len(name)] = "."
           /\ \A k \in 1..Len(name) : n[Len(n) - Len(name) + k] = name[k]}

\* The nodes that have a line of the tree in the output
Printed == {out[k].node : k \in {j \in 1..Len(out) : out[j].kind = "tree"}}

NoTreePrinted == \A k \in 1..Len(out) : out[k].kind # "tree"

EndedNotFound == pc = "exit" /\ exit.message.kind = "not found"

EndedAmbiguous == pc = "exit" /\ \E k \in 1..Len(out) : out[k].kind = "ambiguous"

\* The file at path is one the collector reads and parses
Collected(path) == files[path].parses /\ ~Search(rx_exclude, AsPosix(path))

\* The callers the resolver is done with, and the calls in a caller's body
Resolved == {build.keys[j] : j \in 1..(i - 1)}
Calls(caller) == CallsOf(build.defs[caller])
IsSelfCall(n) ==
    /\ n.func.kind = "Attribute"
    /\ n.func.value.kind = "Name"
    /\ n.func.value.id \in {SELF, CLS}

\* ------------------------------------------------------------------------
\* Properties
\* ------------------------------------------------------------------------

\* C1: print_caller_tree terminates for every graph and uniquely resolved
\* target, cycles among the ancestors included: the walk never runs into
\* the interpreter's recursion limit.
C1_WalkTerminates ==
    pc = "exit" => exit.message.kind # "RecursionError"

\* C2: target resolution has three outcomes, decided by the number of
\* nodes that equal the target or end with "." + target: none - non-zero
\* status, the not-found message, nothing printed; several - every match
\* listed, non-zero status, no tree; one - rendering goes ahead with that
\* node as the target.
C2_ThreeOutcomes ==
    pc \in {"walk", "exit"} =>
        LET m == Candidates(cgraph.graph, target)
        IN  /\ m = {} =>
                /\ pc = "exit"
                /\ exit.status # 0
                /\ exit.message = [kind |-> "not found", function |-> target]
                /\ out = <<>>
            /\ Cardinality(m) > 1 =>
                /\ pc = "exit"
                /\ exit.status # 0
                /\ \E k \in 1..Len(out) : out[k].kind = "matches" /\ out[k].names = m
                /\ NoTreePrinted
            /\ Cardinality(m) = 1 =>
                /\ ~EndedNotFound
                /\ ~EndedAmbiguous
                /\ \A n \in cgraph.graph.nodes :
                      n \in anc <=> \E t \in m : HasPath(cgraph.graph, n, t)

C2_Witness ==
    /\ pc = "exit"
    /\ Cardinality(Candidates(cgraph.graph, target)) > 1
    /\ exit.status = 1
    /\ NoTreePrinted

\* C3: for a uniquely resolved target, every node of the ancestor set, the
\* target included, is on at least one printed line once print_caller_tree
\* has returned.
C3_AncestorsPrinted ==
    (pc = "exit" /\ exit.status = 0) =>
        \A t \in Candidates(cgraph.graph, target) :
            \A n \in cgraph.graph.nodes :
                HasPath(cgraph.graph, n, t) => n \in Printed

\* C4: at every point of build_call_graph and in its result, both ends of
\* every edge are nodes of the graph and keys of the definitions map, and
\* the nodes are exactly those keys: an unresolved call adds no edge and no
\* node.
C4_NoDanglingEdges ==
    /\ pc \in {"collect", "resolve"} =>
        /\ build.graph.nodes = DOMAIN build.defs
        /\ \A e \in build.graph.edges :
              {e[1], e[2]} \subseteq build.graph.nodes \cap DOMAIN build.defs
    /\ pc \notin {"collect", "resolve"} =>
        /\ built.graph.nodes = DOMAIN built.src
        /\ \A e \in built.graph.edges :
              {e[1], e[2]} \subseteq built.graph.nodes \cap DOMAIN built.src

C4_Witness ==
    /\ pc = "main"
    /\ built.graph.edges # {}
    /\ \E path \in DOMAIN files :
          /\ Collected(path)
          /\ \E k \in 1..Len(AstWalk(files[path].body)) :
                LET n == AstWalk(files[path].body)[k]
                IN  /\ n.kind = "Call"
                    /\ n.func.kind = "Name"
                    /\ \A d \in built.graph.nodes : LastSegment(d) # n.func.id

\* C5: filtered(pattern) returns a CallGraph whose nodes are the receiver's
\* nodes matching the pattern, whose edges are the receiver's edges between
\* kept nodes and whose src and lines are cut down to the kept nodes; the
\* receiver is unchanged, and a pattern that matches nothing gives the
\* empty graph, not an error.
C5_Filtered ==
    [][(pc = "main" /\ only' # None) =>
          LET keep == {n \in built.graph.nodes : Search(only', n)}
          IN  /\ built' = built
              /\ cgraph'.graph.nodes = keep
              /\ cgraph'.graph.edges =
                    {e \in built.graph.edges : e[1] \in keep /\ e[2] \in keep}
              /\ DOMAIN cgraph'.src = keep
              /\ DOMAIN cgraph'.lines = keep
              /\ \A n \in keep : /\ cgraph'.src[n] = built.src[n]
                                 /\ cgraph'.lines[n] = built.lines[n]
              /\ keep = {} => cgraph'.graph = EmptyGraph /\ pc' = "print"]_vars

C5_Witness ==
    /\ pc = "print"
    /\ only # None
    /\ cgraph.graph.nodes # {}
    /\ cgraph.graph.edges # {}
    /\ cgraph.graph.edges # built.graph.edges

\* C6: a function defined inside another function is registered with the
\* enclosing function's name as a dotted segment, as an enclosing class
\* contributes one: module m, function outer, function inner give the node
\* m.outer.inner.
RECURSIVE ScopedNames(_, _, _)
ScopedNames(nodes, module, scope) ==
    IF nodes = <<>> THEN {}
    ELSE LET n == Head(nodes)
             here == IF n.kind = "FunctionDef"
                       THEN {module \o DOT \o Join(DOT, Append(scope, n.name))}
                            \cup ScopedNames(n.body, module, Append(scope, n.name))
                     ELSE IF n.kind = "ClassDef"
                       THEN ScopedNames(n.body, module, Append(scope, n.name))
                     ELSE {}
         IN  here \cup ScopedNames(Tail(nodes), module, scope)

C6_NestedFunctionScoped ==
    pc = "main" =>
        \A path \in DOMAIN files :
            Collected(path) =>
                ScopedNames(files[path].body, ModuleName(path), <<>>)
                    \subseteq built.graph.nodes

\* C7: the nodes and edges build_call_graph returns are the same for every
\* order in which the files are visited, also when two files give the same
\* qualified name.
Orders(S) ==
    {o \in [1..Cardinality(S) -> S] : \A x \in S : \E k \in DOMAIN o : o[k] = x}

C7_OrderIndependent ==
    pc = "main" =>
        \A o \in Orders(DOMAIN files) :
            BuildCallGraph(files, o, rx_exclude).graph = built.graph

\* C8: a call self.attr(...) or cls.attr(...), when the caller's qualified
\* name with its last segment replaced by attr is a known definition, adds
\* the edge to that definition and to no other definition.
Sibling(caller, attr) == EnclosingScope(caller) \o DOT \o attr

SameClassCalls(caller) ==
    {k \in 1..Len(Calls(caller)) :
        /\ IsSelfCall(Calls(caller)[k])
        /\ Sibling(caller, Calls(caller)[k].func.attr) \in DOMAIN build.defs}

C8_SameClassOnly ==
    pc = "resolve" =>
        \A caller \in Resolved :
            LET want == {Sibling(caller, Calls(caller)[k].func.attr) :
                            k \in SameClassCalls(caller)}
            IN  /\ want \subseteq Successors(build.graph, caller)
                /\ SameClassCalls(caller) = 1..Len(Calls(caller))
                      => Successors(build.graph, caller) = want

C8_Witness ==
    /\ pc = "resolve"
    /\ \E caller \in Resolved :
          /\ SameClassCalls(caller) # {}
          /\ SameClassCalls(caller) = 1..Len(Calls(caller))
          /\ \E k \in SameClassCalls(caller) :
                \E d \in DOMAIN build.defs :
                    /\ d # Sibling(caller, Calls(caller)[k].func.attr)
                    /\ LastSegment(d) = Calls(caller)[k].func.attr
                    /\ StartsWith(d, EnclosingScope(caller))
                    /\ d \notin Successors(build.graph, caller)

\* C9: a bare-name call f(...) adds edges to exactly these definitions: of
\* C, the known qualified names from any file whose last segment is f, the
\* members P that start with the caller's enclosing scope if there are any,
\* and all of C otherwise.
BareTargets(caller, f) ==
    LET C == {d \in DOMAIN build.defs : LastSegment(d) = f}
        scope == EnclosingScope(caller)
        P == {c \in C : /\ Len(c) >= Len(scope)
                        /\ \A k \in 1..Len(scope) : c[k] = scope[k]}
    IN  IF P # {} THEN P ELSE C

BareCalls(caller) ==
    {k \in 1..Len(Calls(caller)) : Calls(caller)[k].func.kind = "Name"}

C9_BareNameEdges ==
    pc = "resolve" =>
        \A caller \in Resolved :
            LET want == UNION {BareTargets(caller, Calls(caller)[k].func.id) :
                                  k \in BareCalls(caller)}
            IN  /\ want \subseteq Successors(build.graph, caller)
                /\ BareCalls(caller) = 1..Len(Calls(caller))
                      => Successors(build.graph, caller) = want

C9_Witness ==
    /\ pc = "resolve"
    /\ \E caller \in Resolved :
          /\ BareCalls(caller) # {}
          /\ BareCalls(caller) = 1..Len(Calls(caller))
          /\ \E k \in BareCalls(caller) :
                LET f == Calls(caller)[k].func.id
                IN  /\ BareTargets(caller, f) # {}
                    /\ \E d \in DOMAIN build.defs :
                          /\ LastSegment(d) = f
                          /\ d \notin BareTargets(caller, f)
                          /\ d \notin Successors(build.graph, caller)
          /\ \E other \in Resolved :
                /\ BareCalls(other) # {}
                /\ \E k \in BareCalls(other) :
                      LET f == Calls(other)[k].func.id
                      IN  /\ BareTargets(other, f) # {}
                          /\ ~ \E c \in BareTargets(other, f) :
                                StartsWith(c, EnclosingScope(other))

\* C10: a target that is the complete qualified name of a node resolves to
\* that node and ends neither not-found nor ambiguous, also when another
\* node's name ends with "." + that name.
C10_FullNameResolves ==
    (pc = "exit" /\ target \in cgraph.graph.nodes) =>
        ~EndedNotFound /\ ~EndedAmbiguous

====
